---- MODULE Spec2Model ----
(***************************************************************************)
(* Iterative DNS resolver (idr_starter.py): the record cache, the cache    *)
(* inspection commands and the delegation walk / alias chase of resolve.   *)
(*                                                                         *)
(* Representation.  A domain-name string is the sequence of its labels,    *)
(* i.e. what str.split('.') returns ("a.b.c" is <<"a","b","c">>, "b.c."   *)
(* is <<"b","c","">> and "" is <<"">>), so '.'.join is the inverse and     *)
(* both are the identity on this representation.  IP literals are plain    *)
(* strings.  The Python dict `cache` keeps insertion order: it is a        *)
(* sequence of entries, each with the ordered list of its bucket keys.     *)
(* server_name is only printed by the program and is left out.             *)
(***************************************************************************)
EXTENDS Integers, Sequences, FiniteSets, TLC

VARIABLES
  cache,      \* the module-level dict `cache` (line 10)
  pc,         \* "idle" (main loop waits for a command), "top", "walk", "askA", "done"
  domain,     \* resolve's parameter/local `domain` (re-assigned by a CNAME)
  i,          \* the for-loop index of the walk (line 69), Python's 0-based i
  server,     \* resolve's local `server`
  response,   \* resolve's local `response`: the last get_dns_record result
  result,     \* the value resolve returned
  listed,     \* the items the most recent list_cache() numbered (its return value)
  asked,      \* history: the argument of the running resolve call
  cache0,     \* history: the cache when the running or last command started
  trace,      \* history: the exchanges and system lookups of the running call
  hops,       \* history: CNAME restarts of the running call
  calls,      \* history: resolve calls made so far
  removes,    \* history: remove_cache_N calls made so far
  fresh,      \* history: no other command has run since the last list_cache()
  removed     \* history: the remove_cache_N call that has just run, if any

vars == <<cache, pc, domain, i, server, response, result, listed,
          asked, cache0, trace, hops, calls, removes, fresh, removed>>

(***************************************************************************)
(* Bounds of the model.                                                    *)
(***************************************************************************)
MaxCalls == 2      \* resolve commands per behaviour
MaxRemoves == 1    \* .remove commands per behaviour
MaxHops == 2       \* CNAME restarts followed within one resolve call

(***************************************************************************)
(* Program constants.                                                      *)
(***************************************************************************)
ROOT_SERVER == "199.7.83.42"

Range(s) == {s[k] : k \in 1..Len(s)}

\* None, as returned by resolve; a returned list is Some(list).
NoneResult == [some |-> FALSE, ips |-> <<>>]
Some(ips) == [some |-> TRUE, ips |-> ips]

\* no remove_cache_N call has just run; otherwise N is its argument and fresh
\* tells whether it directly followed a list_cache()
NoRemove == [N |-> -1, fresh |-> FALSE]

\* None, as returned by get_dns_record (lines 23, 51).
NoResponse == [ok |-> FALSE, answers |-> <<>>, authority |-> <<>>, additional |-> <<>>]

(***************************************************************************)
(* Strings.                                                                *)
(***************************************************************************)
\* s.rstrip('.') on the label representation: a trailing dot is a trailing
\* empty label; the empty string itself is <<"">>.
RECURSIVE RStripDot(_)
RStripDot(s) ==
  IF Len(s) > 1 /\ s[Len(s)] = ""
  THEN RStripDot(SubSeq(s, 1, Len(s) - 1))
  ELSE s

\* str() of a name of a parsed record (dnslib prints the trailing dot).
Dot(n) == Append(n, "")

\* the slice domain_parts[:i+1] in place of domain_parts[i:]
Suffix_prefix(parts, k) == SubSeq(parts, 1, k + 1)

\* '.'.join(domain_parts[i:]) (line 71), i counted from 0.
Suffix(parts, k) == SubSeq(parts, k + 1, Len(parts))

(***************************************************************************)
(* The cache: a dict domain -> (dict rtype -> vals), in insertion order.   *)
(* A bucket that is absent holds <<>> in its field.                        *)
(***************************************************************************)
NoRecords(d) == [domain |-> d, keys |-> <<>>, NS |-> <<>>, NS_IP |-> <<>>, A |-> <<>>]

\* position of domain d in the dict, 0 when `d not in cache`
Index(c, d) ==
  IF \E k \in 1..Len(c) : c[k].domain = d
  THEN CHOOSE k \in 1..Len(c) : c[k].domain = d
  ELSE 0

\* `d in cache and rtype in cache[d]`
HasBucket(c, d, rtype) ==
  \E k \in 1..Len(c) : c[k].domain = d /\ rtype \in Range(c[k].keys)

\* cache[d][rtype]
Bucket(c, d, rtype) == c[Index(c, d)][rtype]

\* `if d not in cache: cache[d] = {}` followed by `cache[d][rtype] = vals`
SetBucket(c, d, rtype, vals) ==
  LET c1 == IF Index(c, d) = 0 THEN Append(c, NoRecords(d)) ELSE c
      k == Index(c1, d)
      e == c1[k]
      keys1 == IF rtype \in Range(e.keys) THEN e.keys ELSE Append(e.keys, rtype)
  IN [c1 EXCEPT ![k] = [e EXCEPT !.keys = keys1, ![rtype] = vals]]

\* a sequence without its k-th element
RemoveIndex(s, k) == SubSeq(s, 1, k - 1) \o SubSeq(s, k + 1, Len(s))

\* `del cache[d][rtype]` without the test of lines 209-210: the domain stays
DelBucket_keepDomain(c, d, rtype) ==
  LET k == Index(c, d)
      e == c[k]
      keys1 == SelectSeq(e.keys, LAMBDA r : r # rtype)
  IN [c EXCEPT ![k] = [e EXCEPT !.keys = keys1, ![rtype] = <<>>]]

\* `del cache[d][rtype]`, then `del cache[d]` when cache[d] is empty (lines 207-210)
DelBucket(c, d, rtype) ==
  LET k == Index(c, d)
      e == c[k]
      keys1 == SelectSeq(e.keys, LAMBDA r : r # rtype)
  IN IF keys1 = <<>>
     THEN RemoveIndex(c, k)
     ELSE [c EXCEPT ![k] = [e EXCEPT !.keys = keys1, ![rtype] = <<>>]]

\* the (domain, rtype) pairs in iteration order (lines 183-187, 197-200)
RECURSIVE Items(_)
Items(c) ==
  IF c = <<>>
  THEN <<>>
  ELSE [k \in 1..Len(c[1].keys) |-> <<c[1].domain, c[1].keys[k]>>] \o Items(Tail(c))

(***************************************************************************)
(* Python dicts with insertion order, as association lists (ns_ips, the    *)
(* NS_IP bucket): a sequence of [ns |-> key, ips |-> value].               *)
(***************************************************************************)
DictHas(m, key) == \E k \in 1..Len(m) : m[k].ns = key

DictGet(m, key) == m[CHOOSE k \in 1..Len(m) : m[k].ns = key].ips

\* m[key] = val: an existing key keeps its position and takes the new value
DictSet(m, key, val) ==
  IF DictHas(m, key)
  THEN [k \in 1..Len(m) |-> IF m[k].ns = key THEN [ns |-> key, ips |-> val] ELSE m[k]]
  ELSE Append(m, [ns |-> key, ips |-> val])

(***************************************************************************)
(* Resource records as RR.parse yields them.  rname and label are the      *)
(* str() of the owner name and of the name in the rdata (NS, CNAME); addr  *)
(* is the str() of the rdata of an A record.                               *)
(***************************************************************************)
RR(rname, rtype, label, addr) ==
  [rname |-> rname, rtype |-> rtype, label |-> label, addr |-> addr]

\* get_dns_record without the rcode test of line 22
get_dns_record_anyRcode(pkt) ==
  IF ~pkt.arrives \/ ~pkt.wellFormed
  THEN NoResponse
  ELSE IF ~pkt.idMatch
  THEN NoResponse
  ELSE [ok |-> TRUE, answers |-> pkt.answers, authority |-> pkt.authority,
        additional |-> pkt.additional]

\* get_dns_record: one send, one receive, the header test, the four sections.
\* pkt.arrives is FALSE when sendto/recvfrom raise, pkt.wellFormed is FALSE
\* when a parse raises.
get_dns_record(pkt) ==
  IF ~pkt.arrives \/ ~pkt.wellFormed
  THEN NoResponse
  ELSE IF ~pkt.idMatch \/ pkt.rcode # "NOERROR"
  THEN NoResponse
  ELSE [ok |-> TRUE, answers |-> pkt.answers, authority |-> pkt.authority,
        additional |-> pkt.additional]

\* ns_answers (lines 95-98)
NsAnswers(resp) ==
  LET rrs == SelectSeq(resp.answers \o resp.authority, LAMBDA ans : ans.rtype = "NS")
  IN [k \in 1..Len(rrs) |-> RStripDot(rrs[k].label)]

\* ns_ips without the test `in ns_answers` of line 107: every A record of the
\* additional section is taken as glue
RECURSIVE NsIps_all(_, _)
NsIps_all(additional, ns_answers) ==
  IF additional = <<>>
  THEN <<>>
  ELSE LET n == Len(additional)
           ans == additional[n]
           rest == NsIps_all(SubSeq(additional, 1, n - 1), ns_answers)
       IN IF ans.rtype = "A"
          THEN DictSet(rest, RStripDot(ans.rname), <<ans.addr>>)
          ELSE rest

\* ns_ips (lines 105-108)
RECURSIVE NsIps(_, _)
NsIps(additional, ns_answers) ==
  IF additional = <<>>
  THEN <<>>
  ELSE LET n == Len(additional)
           ans == additional[n]
           rest == NsIps(SubSeq(additional, 1, n - 1), ns_answers)
       IN IF ans.rtype = "A" /\ RStripDot(ans.rname) \in Range(ns_answers)
          THEN DictSet(rest, RStripDot(ans.rname), <<ans.addr>>)
          ELSE rest

\* next_server is None
NoServer == ""

\* the selection looking at the first listed nameserver only
FirstWithIp_first(ns_list, ips) ==
  IF ns_list # <<>> /\ DictHas(ips, ns_list[1])
  THEN DictGet(ips, ns_list[1])[1]
  ELSE NoServer

\* the loops of lines 80-85 and 118-123: the first IP of the first listed
\* nameserver that has an entry in ips, NoServer when no nameserver has one
FirstWithIp(ns_list, ips) ==
  IF \E k \in 1..Len(ns_list) : DictHas(ips, ns_list[k])
  THEN LET k == CHOOSE k \in 1..Len(ns_list) :
                  /\ DictHas(ips, ns_list[k])
                  /\ \A j \in 1..(k - 1) : ~DictHas(ips, ns_list[j])
       IN DictGet(ips, ns_list[k])[1]
  ELSE NoServer

\* the loop of lines 127-133 against a system resolver that answers hosts[ns]
\* (NoServer: gethostbyname raises): how many candidates are tried
LookupCount(ns_answers, hosts) ==
  IF \E k \in 1..Len(ns_answers) : hosts[ns_answers[k]] # NoServer
  THEN CHOOSE k \in 1..Len(ns_answers) :
         /\ hosts[ns_answers[k]] # NoServer
         /\ \A j \in 1..(k - 1) : hosts[ns_answers[j]] = NoServer
  ELSE Len(ns_answers)

\* next_server after lines 126-133
LookupServer(ns_answers, hosts) ==
  IF ns_answers = <<>> THEN NoServer
  ELSE hosts[ns_answers[LookupCount(ns_answers, hosts)]]

(***************************************************************************)
(* History records.                                                        *)
(***************************************************************************)
Exchange(qtype, name, srv, resp) ==
  [kind |-> qtype, name |-> name, server |-> srv, reply |-> resp, ip |-> ""]

Lookup(ns, ip) ==
  [kind |-> "HOST", name |-> ns, server |-> "", reply |-> NoResponse, ip |-> ip]

\* the gethostbyname calls of lines 127-133, in order
Lookups(ns_answers, hosts) ==
  [k \in 1..LookupCount(ns_answers, hosts) |-> Lookup(ns_answers[k], hosts[ns_answers[k]])]

(***************************************************************************)
(* Inputs: the names a user enters, and what the network and the system    *)
(* resolver may answer.                                                    *)
(***************************************************************************)
ABC == <<"a", "b", "c">>
BC == <<"b", "c">>
Domains == {ABC, BC}

NS1 == <<"ns1">>
NS2 == <<"ns2">>
NS3 == <<"ns3">>
NS9 == <<"ns9">>
HostNames == {NS1, NS2, NS3}

\* what gethostbyname answers for each nameserver hostname (NoServer: it raises)
HostTables == [HostNames -> {NoServer, "ip3"}]

Pkt(answers, authority, additional) ==
  [arrives |-> TRUE, wellFormed |-> TRUE, idMatch |-> TRUE, rcode |-> "NOERROR",
   answers |-> answers, authority |-> authority, additional |-> additional]

NsRR(h) == RR(<<"c", "">>, "NS", Dot(h), "")
SoaRR == RR(<<"c", "">>, "SOA", <<"c", "">>, "")
Glue(h, ip) == RR(Dot(h), "A", <<>>, ip)
ARR(ip) == RR(Dot(BC), "A", <<>>, ip)
CnameRR(t) == RR(Dot(ABC), "CNAME", Dot(t), "")

\* exchanges that make get_dns_record return None
BadPackets ==
  { [Pkt(<<>>, <<>>, <<>>) EXCEPT !.arrives = FALSE],
    [Pkt(<<>>, <<>>, <<>>) EXCEPT !.wellFormed = FALSE],
    [Pkt(<<>>, <<NsRR(NS1)>>, <<Glue(NS1, "ip1")>>) EXCEPT !.idMatch = FALSE],
    [Pkt(<<>>, <<SoaRR>>, <<>>) EXCEPT !.rcode = "NXDOMAIN"] }

\* a referral: ns1 (answer section) has no glue, ns2 and ns3 (authority
\* section) have, ns3's glue comes first and ns2 has two addresses
Referral ==
  Pkt(<<NsRR(NS1)>>, <<SoaRR, NsRR(NS2), NsRR(NS3)>>,
      <<RR(Dot(NS1), "AAAA", <<>>, "ip6"), Glue(NS3, "ip1"),
        Glue(NS2, "ip1"), Glue(NS2, "ip2")>>)

\* a referral without glue for its nameservers
BareReferral == Pkt(<<>>, <<NsRR(NS2), NsRR(NS1)>>, <<Glue(NS9, "ip1")>>)

\* no NS record at all
NoDelegation == Pkt(<<>>, <<SoaRR>>, <<Glue(NS1, "ip1")>>)

\* answers to an NS query
NSPackets == {Referral, BareReferral, NoDelegation}

\* answers to an A query
APackets ==
  { Pkt(<<ARR("ip1"), ARR("ip2")>>, <<NsRR(NS1)>>, <<Glue(NS1, "ip1")>>),
    Pkt(<<ARR("ip1"), CnameRR(BC)>>, <<>>, <<>>),
    Pkt(<<>>, <<SoaRR>>, <<>>) }

(***************************************************************************)
(* Initial state: the module has been loaded, the main loop waits.         *)
(***************************************************************************)
Init ==
  /\ cache = <<>>
  /\ pc = "idle"
  /\ domain = <<"">>
  /\ i = 0
  /\ server = ROOT_SERVER
  /\ response = NoResponse
  /\ result = NoneResult
  /\ listed = <<>>
  /\ asked = <<"">>
  /\ cache0 = <<>>
  /\ trace = <<>>
  /\ hops = 0
  /\ calls = 0
  /\ removes = 0
  /\ fresh = FALSE
  /\ removed = NoRemove

locals == <<domain, i, server, response, result, asked, trace, hops>>

(***************************************************************************)
(* Cache inspection commands (main loop lines 224-237).                    *)
(***************************************************************************)
\* list_cache numbering from 0 (idx = 0 at line 182): the item shown as n is
\* the one remove_cache_N counts as n + 1
list_cache_fromZero ==
  /\ pc = "idle"
  /\ listed' = IF cache = <<>> THEN <<>> ELSE Tail(Items(cache))
  /\ fresh' = TRUE
  /\ removed' = NoRemove
  /\ cache0' = <<>>
  /\ UNCHANGED <<cache, pc, locals, calls, removes>>

list_cache ==
  /\ pc = "idle"
  /\ listed' = Items(cache)
  /\ fresh' = TRUE
  /\ removed' = NoRemove
  /\ cache0' = <<>>
  /\ UNCHANGED <<cache, pc, locals, calls, removes>>

clear_cache ==
  /\ pc = "idle"
  /\ cache' = <<>>
  /\ fresh' = FALSE
  /\ removed' = NoRemove
  /\ cache0' = <<>>
  /\ UNCHANGED <<pc, listed, locals, calls, removes>>

\* remove_cache_N with the test `N < 0` in place of `N < 1`: items[N - 1] is
\* then items[-1], the last item
RemoveAt_fromZero(c, N) ==
  LET items == Items(c)
  IN IF N < 0 \/ N > Len(items) \/ items = <<>>
     THEN c
     ELSE IF N = 0
     THEN DelBucket(c, items[Len(items)][1], items[Len(items)][2])
     ELSE DelBucket(c, items[N][1], items[N][2])

\* remove_cache_N taking items[N] in place of items[N - 1]
RemoveAt_next(c, N) ==
  LET items == Items(c)
  IN IF N < 1 \/ N >= Len(items)
     THEN c
     ELSE DelBucket(c, items[N + 1][1], items[N + 1][2])

\* the cache after remove_cache_N(N)
RemoveAt(c, N) ==
  LET items == Items(c)
  IN IF N < 1 \/ N > Len(items)
     THEN c
     ELSE DelBucket(c, items[N][1], items[N][2])

remove_cache_N(N) ==
  /\ pc = "idle"
  /\ removes < MaxRemoves
  /\ cache' = RemoveAt(cache, N)
  /\ removes' = removes + 1
  /\ fresh' = FALSE
  /\ removed' = [N |-> N, fresh |-> fresh]
  /\ cache0' = cache
  /\ UNCHANGED <<pc, listed, locals, calls>>

\* the numbers a user may type after .remove: every valid index, 0 and count + 1
RemoveArgs == 0..(Len(Items(cache)) + 1)

(***************************************************************************)
(* resolve (lines 53-173), one action per loop step or exchange.           *)
(***************************************************************************)
\* main loop line 238: ips = resolve(domain)
call_resolve(d) ==
  /\ pc = "idle"
  /\ calls < MaxCalls
  /\ calls' = calls + 1
  /\ pc' = "top"
  /\ domain' = d
  /\ asked' = d
  /\ cache0' = cache
  /\ trace' = <<>>
  /\ hops' = 0
  /\ fresh' = FALSE
  /\ removed' = NoRemove
  /\ UNCHANGED <<cache, i, server, response, result, listed, removes>>

\* `return v`
Return(v) ==
  /\ result' = v
  /\ pc' = "done"

\* lines 57-59
resolve_cache_hit ==
  /\ pc = "top"
  /\ HasBucket(cache, domain, "A")
  /\ Return(Some(Bucket(cache, domain, "A")))
  /\ UNCHANGED <<cache, domain, i, server, response, listed, asked, cache0,
                 trace, hops, calls, removes, fresh, removed>>

\* resolve without the test of lines 57-59: the walk starts whatever is cached
resolve_start_walk_uncached ==
  /\ pc = "top"
  /\ server' = ROOT_SERVER
  /\ i' = Len(domain) - 1
  /\ pc' = "walk"
  /\ UNCHANGED <<cache, domain, response, result, listed, asked, cache0,
                 trace, hops, calls, removes, fresh, removed>>

\* lines 61-69
resolve_start_walk ==
  /\ pc = "top"
  /\ ~HasBucket(cache, domain, "A")
  /\ server' = ROOT_SERVER
  /\ i' = Len(domain) - 1
  /\ pc' = "walk"
  /\ UNCHANGED <<cache, domain, response, result, listed, asked, cache0,
                 trace, hops, calls, removes, fresh, removed>>

\* the for statement of line 69 starting over from the last label when it has
\* run out of values, in place of ending
NextSuffix_again ==
  IF i = 0
  THEN pc' = "walk" /\ i' = Len(domain) - 1
  ELSE pc' = "walk" /\ i' = i - 1

\* the for statement of line 69 takes its next value, or ends
NextSuffix ==
  IF i = 0
  THEN pc' = "askA" /\ i' = i
  ELSE pc' = "walk" /\ i' = i - 1

\* the cache branch looking at the first listed nameserver only
CachedServer_first(c, curr_domain, srv) ==
  LET ns_cache == Bucket(c, curr_domain, "NS")
      cache_ips == IF HasBucket(c, curr_domain, "NS_IP")
                   THEN Bucket(c, curr_domain, "NS_IP")
                   ELSE <<>>
  IN IF ns_cache # <<>> /\ DictHas(cache_ips, ns_cache[1])
     THEN DictGet(cache_ips, ns_cache[1])[1]
     ELSE srv

\* the server after the cache branch, lines 76-85
CachedServer(c, curr_domain, srv) ==
  LET ns_cache == Bucket(c, curr_domain, "NS")
      cache_ips == IF HasBucket(c, curr_domain, "NS_IP")
                   THEN Bucket(c, curr_domain, "NS_IP")
                   ELSE <<>>
      ip == FirstWithIp(ns_cache, cache_ips)
  IN IF ip # NoServer THEN ip ELSE srv

\* lines 73-86
resolve_walk_cached ==
  /\ pc = "walk"
  /\ HasBucket(cache, Suffix(domain, i), "NS")
  /\ server' = CachedServer(cache, Suffix(domain, i), server)
  /\ NextSuffix
  /\ UNCHANGED <<cache, domain, response, result, listed, asked, cache0,
                 trace, hops, calls, removes, fresh, removed>>

\* dict.update: the entries of n set in m
RECURSIVE DictUpdate(_, _)
DictUpdate(m, n) ==
  IF n = <<>> THEN m ELSE DictUpdate(DictSet(m, n[1].ns, n[1].ips), Tail(n))

\* the cache write with the glue merged into the NS_IP bucket already there
WriteNs_merge(c, curr_domain, ns_answers, ns_ips) ==
  LET old == IF HasBucket(c, curr_domain, "NS_IP")
             THEN Bucket(c, curr_domain, "NS_IP")
             ELSE <<>>
  IN SetBucket(SetBucket(c, curr_domain, "NS", ns_answers),
               curr_domain, "NS_IP", DictUpdate(old, ns_ips))

\* the cache write placed after the selection of lines 117-123 has found a
\* glue address: a reply without glue is not written
WriteNs_ifGlue(c, curr_domain, ns_answers, ns_ips) ==
  IF FirstWithIp(ns_answers, ns_ips) = NoServer
  THEN c
  ELSE SetBucket(SetBucket(c, curr_domain, "NS", ns_answers), curr_domain, "NS_IP", ns_ips)

\* lines 110-114
WriteNs(c, curr_domain, ns_answers, ns_ips) ==
  SetBucket(SetBucket(c, curr_domain, "NS", ns_answers), curr_domain, "NS_IP", ns_ips)

\* the `break` of line 102 placed after the cache write of lines 111-114:
\* the empty NS list is written before the walk ends
StopWalk_write ==
  /\ pc' = "askA"
  /\ cache' = SetBucket(SetBucket(cache, Suffix(domain, i), "NS", <<>>),
                        Suffix(domain, i), "NS_IP", <<>>)
  /\ UNCHANGED <<i, server, result>>

\* `return None` in place of the `break` of line 102
StopWalk_fail ==
  /\ result' = NoneResult
  /\ pc' = "done"
  /\ UNCHANGED <<cache, i, server>>

\* lines 100-102: no NS record, the walk ends (break)
StopWalk ==
  /\ pc' = "askA"
  /\ UNCHANGED <<cache, i, server, result>>

\* lines 88-139: the NS exchange for the current suffix and what follows it
resolve_walk_query(pkt, hosts) ==
  /\ pc = "walk"
  /\ ~HasBucket(cache, Suffix(domain, i), "NS")
  /\ LET curr_domain == Suffix(domain, i)
         resp == get_dns_record(pkt)
         ns_answers == NsAnswers(resp)
         ns_ips == NsIps(resp.additional, ns_answers)
         glue == FirstWithIp(ns_answers, ns_ips)
         next_server == IF glue # NoServer THEN glue ELSE LookupServer(ns_answers, hosts)
         asks == Append(trace, Exchange("NS", curr_domain, server, resp))
     IN /\ response' = resp
        /\ IF ~resp.ok
           THEN /\ Return(NoneResult)
                /\ trace' = asks
                /\ UNCHANGED <<cache, i, server>>
           ELSE IF ns_answers = <<>>
           THEN /\ StopWalk
                /\ trace' = asks
           ELSE /\ cache' = WriteNs(cache, curr_domain, ns_answers, ns_ips)
                /\ trace' = IF glue # NoServer THEN asks
                            ELSE asks \o Lookups(ns_answers, hosts)
                /\ IF next_server = NoServer
                   THEN Return(NoneResult) /\ UNCHANGED <<i, server>>
                   ELSE server' = next_server /\ NextSuffix /\ UNCHANGED result
  /\ UNCHANGED <<domain, listed, asked, cache0, hops, calls, removes, fresh, removed>>

\* the answers read without the CNAME test of lines 149-155
FirstCname_none(answers) == <<>>

\* the first CNAME of the answers (lines 149-155), <<>> when there is none
FirstCname(answers) ==
  LET cn == SelectSeq(answers, LAMBDA ans : ans.rtype = "CNAME")
  IN IF cn = <<>> THEN <<>> ELSE RStripDot(cn[1].label)

\* ip_addresses (lines 162-165)
IpAddresses(answers) ==
  LET a == SelectSeq(answers, LAMBDA ans : ans.rtype = "A")
  IN [k \in 1..Len(a) |-> a[k].addr]

\* lines 141-173: the A exchange and what follows it
resolve_ask_a(pkt) ==
  /\ pc = "askA"
  /\ LET resp == get_dns_record(pkt)
         cname == FirstCname(resp.answers)
         ip_addresses == IpAddresses(resp.answers)
     IN /\ response' = resp
        /\ trace' = Append(trace, Exchange("A", domain, server, resp))
        /\ IF ~resp.ok
           THEN Return(NoneResult) /\ UNCHANGED <<cache, domain, hops>>
           ELSE IF cname # <<>>
           THEN /\ hops < MaxHops
                /\ hops' = hops + 1
                /\ domain' = cname
                /\ pc' = "top"
                /\ UNCHANGED <<cache, result>>
           ELSE IF ip_addresses # <<>>
           THEN /\ cache' = SetBucket(cache, domain, "A", ip_addresses)
                /\ Return(Some(ip_addresses))
                /\ UNCHANGED <<domain, hops>>
           ELSE Return(NoneResult) /\ UNCHANGED <<cache, domain, hops>>
  /\ UNCHANGED <<i, server, listed, asked, cache0, calls, removes, fresh, removed>>

\* main loop lines 239-242: the result is printed, the loop waits again
report ==
  /\ pc = "done"
  /\ pc' = "idle"
  /\ domain' = <<"">>
  /\ i' = 0
  /\ server' = ROOT_SERVER
  /\ response' = NoResponse
  /\ result' = NoneResult
  /\ asked' = <<"">>
  /\ cache0' = <<>>
  /\ trace' = <<>>
  /\ hops' = 0
  /\ UNCHANGED <<cache, listed, calls, removes, fresh, removed>>

\* the steps of the command `<name>` with the given network and system resolver
Resolving(names, nsPackets, aPackets, hostTables) ==
  \/ \E d \in names : call_resolve(d)
  \/ resolve_cache_hit
  \/ resolve_start_walk
  \/ resolve_walk_cached
  \/ \E pkt \in nsPackets : \E hosts \in hostTables : resolve_walk_query(pkt, hosts)
  \/ \E pkt \in aPackets : resolve_ask_a(pkt)
  \/ report

(***************************************************************************)
(* Spec: the commands that change the cache (names, .clear, .remove N)     *)
(* against the full set of answers.  list_cache reads the cache only; it   *)
(* is part of SpecList, which follows what the user was shown.             *)
(***************************************************************************)
Next ==
  \/ clear_cache
  \/ \E N \in RemoveArgs : remove_cache_N(N)
  \/ Resolving(Domains, NSPackets \cup BadPackets, APackets \cup BadPackets, HostTables)

Spec == Init /\ [][Next]_vars

\* SpecFair: names and .clear against the full set of answers, with the
\* scheduling of a sequential program whose exchanges all return: a resolve
\* call that has started takes its next step.  The commands wait for the
\* user (line 219) and carry no fairness.
Step ==
  \/ resolve_cache_hit
  \/ resolve_start_walk
  \/ resolve_walk_cached
  \/ \E pkt \in NSPackets \cup BadPackets : \E hosts \in HostTables : resolve_walk_query(pkt, hosts)
  \/ \E pkt \in APackets \cup BadPackets : resolve_ask_a(pkt)

NextFair ==
  \/ clear_cache
  \/ Resolving(Domains, NSPackets \cup BadPackets, APackets \cup BadPackets, HostTables)

SpecFair == Init /\ [][NextFair]_vars /\ WF_vars(Step)

\* SpecList: all four commands, against referrals with glue, address answers
\* and lost datagrams
ListNSPackets == {Referral, [Pkt(<<>>, <<>>, <<>>) EXCEPT !.arrives = FALSE]}
ListAPackets ==
  { Pkt(<<ARR("ip1"), ARR("ip2")>>, <<>>, <<>>),
    [Pkt(<<>>, <<>>, <<>>) EXCEPT !.arrives = FALSE] }

NextList ==
  \/ list_cache
  \/ clear_cache
  \/ \E N \in RemoveArgs : remove_cache_N(N)
  \/ Resolving(Domains, ListNSPackets, ListAPackets, {[h \in HostNames |-> "ip3"]})

SpecList == Init /\ [][NextList]_vars

\* SpecNames: resolve called with spellings of one name that differ in letter
\* case or by a trailing dot ("b.c", "b.C", "b.c."), as typed at line 219
NameVariants == {BC, <<"b", "C">>, Dot(BC)}

NextNames ==
  Resolving(NameVariants, ListNSPackets, ListAPackets, {[h \in HostNames |-> "ip3"]})

SpecNames == Init /\ [][NextNames]_vars

\* SpecCycle: nameservers whose zone data holds an alias cycle, a.b.c CNAME
\* b.c and b.c CNAME a.b.c, and an address for every other name; every
\* exchange succeeds and every system lookup gives an address
C == <<"c">>
CycleNames == {ABC, BC, C}

CycleAnswer(name) ==
  IF name = ABC THEN Pkt(<<RR(Dot(ABC), "CNAME", Dot(BC), "")>>, <<>>, <<>>)
  ELSE IF name = BC THEN Pkt(<<RR(Dot(BC), "CNAME", Dot(ABC), "")>>, <<>>, <<>>)
  ELSE Pkt(<<RR(Dot(name), "A", <<>>, "ip1")>>, <<>>, <<>>)

NextCycle ==
  \/ \E d \in CycleNames : call_resolve(d)
  \/ resolve_cache_hit
  \/ resolve_start_walk
  \/ resolve_walk_cached
  \/ \E pkt \in NSPackets : resolve_walk_query(pkt, [h \in HostNames |-> "ip3"])
  \/ resolve_ask_a(CycleAnswer(domain))
  \/ report

SpecCycle == Init /\ [][NextCycle]_vars

(***************************************************************************)
(* Properties.                                                             *)
(***************************************************************************)
\* the exchanges with nameservers among the first n entries of the trace
NsAsked(n) == {k \in 1..n : trace[k].kind = "NS"}

\* C1: when the cache holds an A bucket for the name resolve is called with,
\* the call returns that bucket's list and makes no exchange and no system
\* lookup: it goes from the cache test straight to its return.
C1_CacheShortCircuit ==
  (pc # "idle" /\ HasBucket(cache0, asked, "A")) =>
    /\ trace = <<>>
    /\ pc \in {"top", "done"}
    /\ cache = cache0
    /\ pc = "done" => result = Some(Bucket(cache0, asked, "A"))

C1_Witness ==
  /\ pc = "done"
  /\ HasBucket(cache0, asked, "A")
  /\ result.some
  /\ Len(result.ips) = 2

\* the server a walk holds after the NS exchange at position k of the trace:
\* the address the system lookup gave when lookups follow the exchange,
\* otherwise the glue address chosen from the reply
ServerAfter(k, next) ==
  IF next > k + 1
  THEN trace[next - 1].ip
  ELSE FirstWithIp(NsAnswers(trace[k].reply),
                   NsIps(trace[k].reply.additional, NsAnswers(trace[k].reply)))

\* C2: in a call that started with an empty cache, before any alias restart,
\* the n-th NS query is for the suffix of the last n labels, the first goes to
\* ROOT_SERVER and each later one to the server selected from the reply to
\* the query before it; when every reply carried an NS record with a usable
\* address the walk ends having queried every suffix.
C2_SuffixOrdering ==
  (pc # "idle" /\ cache0 = <<>> /\ hops = 0) =>
    /\ \A k \in NsAsked(Len(trace)) :
         LET n == Cardinality(NsAsked(k))
         IN /\ n <= Len(asked)
            /\ trace[k].name = SubSeq(asked, Len(asked) - n + 1, Len(asked))
            /\ n = 1 => trace[k].server = ROOT_SERVER
            /\ n > 1 =>
                 LET prev == CHOOSE j \in NsAsked(k - 1) : Cardinality(NsAsked(j)) = n - 1
                 IN trace[k].server = ServerAfter(prev, k)
    /\ (pc = "askA" /\ \A k \in NsAsked(Len(trace)) : NsAnswers(trace[k].reply) # <<>>)
         => Cardinality(NsAsked(Len(trace))) = Len(asked)

C2_Witness ==
  /\ pc = "askA"
  /\ cache0 = <<>>
  /\ hops = 0
  /\ asked = <<"a", "b", "c">>
  /\ Cardinality(NsAsked(Len(trace))) = 3
  /\ Len(trace) > 3
  /\ trace[Len(trace)].kind = "NS"
  /\ trace[Len(trace)].server = "ip3"

\* the last entry of the trace
Last == trace[Len(trace)]

\* the suffix the walk is at
Current == SubSeq(domain, i + 1, Len(domain))

\* the NS records of a reply's answer and authority sections, and the A
\* records of its additional section owned by one of their hostnames
NsRecords(r) == {rr \in Range(r.answers) \cup Range(r.authority) : rr.rtype = "NS"}
GlueRecords(r) ==
  {rr \in Range(r.additional) :
     /\ rr.rtype = "A"
     /\ \E n \in NsRecords(r) : RStripDot(n.label) = RStripDot(rr.rname)}

\* C3: when the walk reaches a suffix whose NS and NS_IP buckets are cached
\* and some listed nameserver has an NS_IP entry, the step makes no exchange,
\* leaves the cache alone and takes as server the first IP of the first listed
\* nameserver with an entry; and every exchange goes to the current server
\* (the NS query for the next suffix, or the A query for the full name).
C3_NsCacheReuse ==
  [][ /\ ( /\ pc = "walk"
           /\ HasBucket(cache, Current, "NS")
           /\ HasBucket(cache, Current, "NS_IP")
           /\ \E ns \in Range(Bucket(cache, Current, "NS")) :
                \E e \in Range(Bucket(cache, Current, "NS_IP")) : e.ns = ns )
         => LET ns_list == Bucket(cache, Current, "NS")
                ips == Bucket(cache, Current, "NS_IP")
                first == CHOOSE k \in 1..Len(ns_list) :
                           /\ \E e \in Range(ips) : e.ns = ns_list[k]
                           /\ \A j \in 1..(k - 1) : \A e \in Range(ips) : e.ns # ns_list[j]
                entry == CHOOSE e \in Range(ips) : e.ns = ns_list[first]
            IN /\ trace' = trace
               /\ cache' = cache
               /\ server' = entry.ips[1]
               /\ pc' = IF i = 0 THEN "askA" ELSE "walk"
               /\ i' = IF i = 0 THEN 0 ELSE i - 1
      /\ (pc \in {"walk", "askA"} /\ trace' # trace)
         => /\ trace'[Len(trace) + 1].server = server
            /\ trace'[Len(trace) + 1].kind = (IF pc = "walk" THEN "NS" ELSE "A")
            /\ trace'[Len(trace) + 1].name = (IF pc = "walk" THEN Current ELSE domain)
    ]_vars

\* a walk served from the cache alone asks for the address at the server of
\* the second listed nameserver, the first one with an NS_IP entry
C3_Witness ==
  /\ pc = "done"
  /\ Len(trace) = 1
  /\ hops = 0
  /\ Last.kind = "A"
  /\ Last.server = "ip2"
  /\ HasBucket(cache0, asked, "NS_IP")
  /\ Bucket(cache0, asked, "NS")[1] = NS1

\* the first CNAME record of a reply's answers
HasCname(r) == \E k \in 1..Len(r.answers) : r.answers[k].rtype = "CNAME"
CnameTarget(r) ==
  RStripDot(r.answers[CHOOSE k \in 1..Len(r.answers) :
                        /\ r.answers[k].rtype = "CNAME"
                        /\ \A j \in 1..(k - 1) : r.answers[j].rtype # "CNAME"].label)

\* the A bucket of name n is the same in caches c and d
SameA(c, d, n) ==
  /\ HasBucket(c, n, "A") <=> HasBucket(d, n, "A")
  /\ HasBucket(c, n, "A") => Bucket(c, n, "A") = Bucket(d, n, "A")

CachedNames == {cache[k].domain : k \in 1..Len(cache)} \cup
               {cache0[k].domain : k \in 1..Len(cache0)}

\* C4 as stated: a call that followed an alias leaves no A bucket under the
\* name it was called with.
C4_NoBucketUnderAlias ==
  (pc = "done" /\ hops > 0) => ~HasBucket(cache, asked, "A")

\* C4 amended: after an A answer with a CNAME the call goes on with the
\* target as its name, and when it returns without another exchange it
\* returns the target's cached A bucket; during a call no A bucket changes
\* except, at the return, the one of the name the call ended with, which
\* holds the returned list.
C4_AliasChase ==
  /\ (pc # "idle" /\ trace # <<>> /\ Last.kind = "A" /\ Last.reply.ok /\ HasCname(Last.reply))
     => /\ domain = CnameTarget(Last.reply)
        /\ hops > 0
        /\ pc = "done" => result = Some(Bucket(cache, domain, "A"))
  /\ pc \in {"top", "walk", "askA", "done"}
     => /\ \A n \in CachedNames : (n # domain \/ pc # "done") => SameA(cache, cache0, n)
        /\ (pc = "done" /\ result.some) => result.ips = Bucket(cache, domain, "A")

C4_Witness ==
  /\ pc = "done"
  /\ hops > 0
  /\ asked # domain
  /\ result.some
  /\ ~HasBucket(cache0, domain, "A")
  /\ HasBucket(cache, domain, "A")
  /\ ~HasBucket(cache, asked, "A")

\* C5: an NS reply without NS records does not end the call: the walk stops,
\* nothing is written, and the next exchange is the A query for the full
\* name at the server the NS query was sent to.
C5_EmptyNsTermination ==
  \A k \in 1..Len(trace) :
    (pc # "idle" /\ trace[k].kind = "NS" /\ trace[k].reply.ok /\ NsRecords(trace[k].reply) = {})
    => IF k = Len(trace)
       THEN /\ pc = "askA"
            /\ server = trace[k].server
            /\ trace[k].name = SubSeq(domain, Len(domain) - Len(trace[k].name) + 1, Len(domain))
            /\ ~HasBucket(cache, trace[k].name, "NS")
       ELSE /\ trace[k + 1].kind = "A"
            /\ trace[k + 1].server = trace[k].server
            /\ LET full == trace[k + 1].name
               IN trace[k].name = SubSeq(full, Len(full) - Len(trace[k].name) + 1, Len(full))
            /\ hops = 0 => trace[k + 1].name = asked

C5_Witness ==
  /\ Len(trace) = 3
  /\ trace[1].kind = "NS"
  /\ trace[2].kind = "NS"
  /\ trace[2].reply.ok
  /\ NsRecords(trace[2].reply) = {}
  /\ trace[2].server = "ip2"
  /\ trace[3].kind = "A"
  /\ trace[3].name = <<"a", "b", "c">>

\* C6: after an NS reply with glue for one of its nameservers the step
\* selects a glue address as the server and makes no system lookup; system
\* lookups follow only a reply without glue.
C6_GluePreference ==
  [][ (pc = "walk" /\ trace' # trace /\ response'.ok)
      => /\ GlueRecords(response') # {}
            => /\ Len(trace') = Len(trace) + 1
               /\ server' \in {rr.addr : rr \in GlueRecords(response')}
               /\ pc' \in {"walk", "askA"}
         /\ (\E k \in 1..Len(trace') : k > Len(trace) /\ trace'[k].kind = "HOST")
            => GlueRecords(response') = {}
    ]_vars

C6_Witness ==
  /\ pc \in {"walk", "askA"}
  /\ trace # <<>>
  /\ Last.kind = "NS"
  /\ Last.reply.ok
  /\ GlueRecords(Last.reply) # {}
  /\ server = "ip2"
  /\ \A k \in 1..Len(trace) : trace[k].kind # "HOST"

\* the number of (domain, bucket) pairs of the entries before the k-th
RECURSIVE KeysBefore(_, _)
KeysBefore(c, k) ==
  IF k <= 1 THEN 0 ELSE KeysBefore(c, k - 1) + Len(c[k - 1].keys)

\* the number of (domain, bucket) pairs, and the n-th of them, domains in
\* insertion order and buckets in insertion order within a domain
Count(c) == KeysBefore(c, Len(c) + 1)
PairAt(c, n) ==
  LET k == CHOOSE k \in 1..Len(c) :
             KeysBefore(c, k) < n /\ n <= KeysBefore(c, k) + Len(c[k].keys)
  IN <<c[k].domain, c[k].keys[n - KeysBefore(c, k)]>>

\* C7: remove_cache_N(i) with 1 <= i <= count removes the i-th pair of the
\* enumeration and nothing else: the other pairs keep their order and values.
C7_RemovalIndexing ==
  (pc = "idle" /\ removed.N >= 1 /\ removed.N <= Count(cache0)) =>
    /\ Count(cache) = Count(cache0) - 1
    /\ ~HasBucket(cache, PairAt(cache0, removed.N)[1], PairAt(cache0, removed.N)[2])
    /\ \A n \in 1..Count(cache) :
         LET p == PairAt(cache, n)
         IN /\ p = PairAt(cache0, IF n < removed.N THEN n ELSE n + 1)
            /\ Bucket(cache, p[1], p[2]) = Bucket(cache0, p[1], p[2])

\* the example of the specification: of three pairs in two domains the
\* second one is removed
C7_Witness ==
  /\ pc = "idle"
  /\ removed.N = 2
  /\ Count(cache0) = 3
  /\ Len(cache0) = 2
  /\ Len(cache0[1].keys) = 2
  /\ Count(cache) = 2

\* C8: remove_cache_N(i) with i < 1 or i > count leaves the cache as it was.
C8_InvalidRemovalNoOp ==
  (pc = "idle" /\ removed # NoRemove /\ (removed.N < 1 \/ removed.N > Count(cache0)))
    => cache = cache0

C8_Witness ==
  /\ pc = "idle"
  /\ removed.N = 0
  /\ Count(cache0) >= 3
  /\ cache = cache0

\* C9 as stated: remove_cache_N(i) removes the pair the most recent
\* list_cache() numbered i, whatever ran between the two (here: as long as
\* that pair is still cached when remove_cache_N is called).
C9_FollowsLastListing ==
  (/\ pc = "idle"
   /\ removed.N >= 1
   /\ removed.N <= Len(listed)
   /\ HasBucket(cache0, listed[removed.N][1], listed[removed.N][2]))
    => ~HasBucket(cache, listed[removed.N][1], listed[removed.N][2])

\* C9 amended: remove_cache_N(i) called directly after list_cache(), with no
\* other command between the two, removes the pair that list_cache() call
\* numbered i, and only that one.
C9_FollowsFreshListing ==
  (pc = "idle" /\ removed.fresh /\ removed.N >= 1 /\ removed.N <= Len(listed)) =>
    /\ HasBucket(cache0, listed[removed.N][1], listed[removed.N][2])
    /\ ~HasBucket(cache, listed[removed.N][1], listed[removed.N][2])
    /\ Count(cache) = Count(cache0) - 1

C9_Witness ==
  /\ pc = "idle"
  /\ removed.fresh
  /\ removed.N = 2
  /\ Len(listed) >= 3
  /\ listed[1][1] = listed[2][1]

\* C10: an NS reply with NS records leaves, under the suffix asked for, an NS
\* bucket that is the reply's hostname list and an NS_IP bucket with one
\* entry per nameserver the reply has glue for, holding one address of that
\* glue; nothing else is in the two buckets, whatever the suffix held before.
C10_NsFullReplace ==
  \A k \in 1..Len(trace) :
    (trace[k].kind = "NS" /\ trace[k].reply.ok /\ NsRecords(trace[k].reply) # {}) =>
      LET r == trace[k].reply
          s == trace[k].name
      IN /\ HasBucket(cache, s, "NS")
         /\ HasBucket(cache, s, "NS_IP")
         /\ Bucket(cache, s, "NS") = NsAnswers(r)
         /\ LET ips == Bucket(cache, s, "NS_IP")
            IN /\ {e.ns : e \in Range(ips)} = {RStripDot(rr.rname) : rr \in GlueRecords(r)}
               /\ Cardinality({e.ns : e \in Range(ips)}) = Len(ips)
               /\ \A e \in Range(ips) :
                    /\ Len(e.ips) = 1
                    /\ \E rr \in GlueRecords(r) :
                         RStripDot(rr.rname) = e.ns /\ rr.addr = e.ips[1]

\* a suffix whose NS bucket had been removed is asked for again and answered
\* with other nameservers and no glue: the glue left in NS_IP is gone
C10_Witness ==
  \E k \in 1..Len(trace) :
    /\ trace[k].kind = "NS"
    /\ trace[k].reply.ok
    /\ NsRecords(trace[k].reply) # {}
    /\ HasBucket(cache0, trace[k].name, "NS_IP")
    /\ Bucket(cache0, trace[k].name, "NS_IP") # <<>>
    /\ Bucket(cache, trace[k].name, "NS_IP") = <<>>
    /\ Bucket(cache, trace[k].name, "NS") = <<NS2, NS1>>

\* C11: a datagram that is lost, cannot be parsed, carries another
\* transaction ID or a response code other than NOERROR makes get_dns_record
\* return None; and an exchange that returned None, for whatever suffix or
\* for the address, is the last thing the call does: resolve has returned
\* failure and no exchange or system lookup follows it.
C11_ExchangeFailureFatal ==
  /\ \A pkt \in BadPackets : get_dns_record(pkt) = NoResponse
  /\ \A k \in 1..Len(trace) :
       (trace[k].kind \in {"NS", "A"} /\ ~trace[k].reply.ok) =>
         /\ k = Len(trace)
         /\ pc = "done"
         /\ result = NoneResult

\* the NS query for the second suffix fails at the server a referral with
\* three nameservers led to: the call ends there
C11_Witness ==
  /\ pc = "done"
  /\ Len(trace) = 2
  /\ trace[1].kind = "NS"
  /\ Len(NsAnswers(trace[1].reply)) = 3
  /\ trace[2].kind = "NS"
  /\ trace[2].server = "ip2"
  /\ ~trace[2].reply.ok
  /\ result = NoneResult

\* the bucket rtype of name n is the same in caches c and d
SameBucket(c, d, n, rtype) ==
  /\ HasBucket(c, n, rtype) <=> HasBucket(d, n, rtype)
  /\ HasBucket(c, n, rtype) => Bucket(c, n, rtype) = Bucket(d, n, rtype)

\* the suffixes for which the running call got an NS reply with NS records
Delegated ==
  {trace[k].name : k \in {j \in 1..Len(trace) :
     trace[j].kind = "NS" /\ trace[j].reply.ok /\ NsRecords(trace[j].reply) # {}}}

\* C12 as stated: the cache after a call that returned failure is the cache
\* before the call.
C12_FailureWritesNothing ==
  (pc = "done" /\ ~result.some) => cache = cache0

\* C12 amended: a call that returned failure has written no A bucket and left
\* no domain without buckets; the NS and NS_IP buckets it changed are those of
\* the suffixes for which it got an NS reply with NS records before it
\* failed, and when there is no such suffix the cache is the one before the
\* call.
C12_FailureWritesNoAddress ==
  (pc = "done" /\ ~result.some) =>
    /\ \A n \in CachedNames :
         /\ SameBucket(cache, cache0, n, "A")
         /\ n \notin Delegated =>
              SameBucket(cache, cache0, n, "NS") /\ SameBucket(cache, cache0, n, "NS_IP")
    /\ \A k \in 1..Len(cache) : cache[k].keys # <<>>
    /\ Delegated = {} => cache = cache0

\* a call fails at the address query after two referrals: their NS and
\* NS_IP buckets stay
C12_Witness ==
  /\ pc = "done"
  /\ ~result.some
  /\ cache0 = <<>>
  /\ Len(cache) = 2
  /\ Len(trace) = 3
  /\ trace[3].kind = "A"
  /\ trace[3].reply.ok

\* a label in lower case, and a name in lower case without trailing dots
Lower(label) == IF label = "C" THEN "c" ELSE IF label = "B" THEN "b" ELSE label
Canonical(n) == LET m == RStripDot(n) IN [k \in 1..Len(m) |-> Lower(m[k])]

\* C13: names that differ only by letter case or a trailing dot share their
\* cache key: when the cache holds an A bucket under a spelling of the name
\* resolve is called with, the call returns that bucket and makes no
\* exchange; and a call that starts with an empty cache asks for the
\* suffixes of the name without its trailing dot.
C13_KeysIgnoreCaseAndDot ==
  /\ (pc = "done" /\ \E k \in 1..Len(cache0) :
         Canonical(cache0[k].domain) = Canonical(asked) /\ HasBucket(cache0, cache0[k].domain, "A"))
     => /\ trace = <<>>
        /\ result.some
  /\ (pc # "idle" /\ cache0 = <<>> /\ hops = 0)
     => \A k \in NsAsked(Len(trace)) :
          LET n == Cardinality(NsAsked(k))
              d == Canonical(asked)
          IN n <= Len(d) /\ Canonical(trace[k].name) = SubSeq(d, Len(d) - n + 1, Len(d))

\* C14 as stated: every NS reply, also one without NS records, leaves its NS
\* list and glue mapping in the cache under the suffix asked for.
C14_UnconditionalNsWrite ==
  \A k \in 1..Len(trace) :
    (trace[k].kind = "NS" /\ trace[k].reply.ok) =>
      /\ HasBucket(cache, trace[k].name, "NS")
      /\ HasBucket(cache, trace[k].name, "NS_IP")
      /\ Bucket(cache, trace[k].name, "NS") = NsAnswers(trace[k].reply)

\* C14 amended: the step that gets an NS reply with NS records writes the
\* NS list and an NS_IP bucket under the suffix, also when no server can be
\* selected afterwards (every system lookup failed and the call returns
\* failure); the step that gets an NS reply without NS records writes
\* nothing and goes on to the address query.
C14_NsWriteBeforeSelection ==
  [][ (pc = "walk" /\ trace' # trace /\ response'.ok) =>
        IF NsRecords(response') = {}
        THEN cache' = cache /\ pc' = "askA"
        ELSE /\ HasBucket(cache', Current, "NS")
             /\ HasBucket(cache', Current, "NS_IP")
             /\ Bucket(cache', Current, "NS") = NsAnswers(response')
             /\ \A n \in CachedNames : n # Current => SameBucket(cache', cache, n, "NS")
             /\ pc' = "done" <=>
                  /\ Len(trace') = Len(trace) + 1 + Len(NsAnswers(response'))
                  /\ \A k \in (Len(trace) + 2)..Len(trace') :
                       trace'[k].kind = "HOST" /\ trace'[k].ip = NoServer
    ]_vars

\* a delegation dead end: the referral had no glue, the system lookup of
\* each of its nameservers failed, the call returned failure, and the
\* referral's NS list is in the cache
C14_Witness ==
  /\ pc = "done"
  /\ ~result.some
  /\ Len(trace) = 3
  /\ trace[1].kind = "NS"
  /\ trace[3].kind = "HOST"
  /\ trace[3].ip = NoServer
  /\ ~HasBucket(cache0, trace[1].name, "NS")
  /\ Bucket(cache, trace[1].name, "NS") = <<NS2, NS1>>
  /\ Bucket(cache, trace[1].name, "NS_IP") = <<>>

\* the address of the first A record the additional section of reply r
\* lists for hostname ns
FirstListedIp(r, ns) ==
  r.additional[CHOOSE k \in 1..Len(r.additional) :
                 /\ r.additional[k].rtype = "A" /\ RStripDot(r.additional[k].rname) = ns
                 /\ \A j \in 1..(k - 1) :
                      ~(r.additional[j].rtype = "A" /\ RStripDot(r.additional[j].rname) = ns)].addr

\* the hostnames of reply r that have glue, in the order of its NS list
WithGlue(r) ==
  SelectSeq(NsAnswers(r), LAMBDA ns : \E rr \in GlueRecords(r) : RStripDot(rr.rname) = ns)

\* C15: after an NS reply with glue, each NS_IP entry written for the suffix
\* starts with the first address the reply lists for that hostname, and the
\* server selected is the first listed address of the first hostname of the
\* NS list that has glue.
C15_FirstGlueIpWins ==
  \A k \in 1..Len(trace) :
    (trace[k].kind = "NS" /\ trace[k].reply.ok /\ GlueRecords(trace[k].reply) # {}) =>
      LET r == trace[k].reply
      IN /\ \A e \in Range(Bucket(cache, trace[k].name, "NS_IP")) :
              e.ips[1] = FirstListedIp(r, e.ns)
         /\ (k = Len(trace) /\ pc \in {"walk", "askA"})
              => server = FirstListedIp(r, WithGlue(r)[1])

\* the positions of the A exchanges among the first n entries of the trace
AAsked(n) == {k \in 1..n : trace[k].kind = "A"}

\* the other name of the alias cycle
Alias(n) == IF n = ABC THEN BC ELSE ABC

\* C16: with a.b.c CNAME b.c and b.c CNAME a.b.c at the nameservers and every
\* exchange succeeding, a call for one of the two names has not returned
\* however many rounds it has made: each round ends with one A query, for
\* the two names in turn, and the next round goes on with the other name;
\* no A bucket is written for either name.
C16_CyclicAliasesLoop ==
  /\ \A n \in {ABC, BC} : ~HasBucket(cache, n, "A")
  /\ (pc # "idle" /\ asked \in {ABC, BC}) =>
       /\ pc \in {"top", "walk", "askA"}
       /\ Cardinality(AAsked(Len(trace))) = hops
       /\ domain = (IF hops % 2 = 0 THEN asked ELSE Alias(asked))
       /\ \A k \in AAsked(Len(trace)) :
            /\ trace[k].reply.ok
            /\ trace[k].name = (IF Cardinality(AAsked(k)) % 2 = 1 THEN asked ELSE Alias(asked))
            /\ CnameTarget(trace[k].reply) = Alias(trace[k].name)

\* the call for a.b.c is back at a.b.c after two rounds
C16_Witness ==
  /\ asked = ABC
  /\ domain = ABC
  /\ pc = "askA"
  /\ hops = 2
  /\ Cardinality(AAsked(Len(trace))) = 2
  /\ trace[Len(trace)].name = BC

\* C17: every domain in the cache holds at least one bucket, and its bucket
\* keys are among NS, NS_IP and A; after remove_cache_N has removed the only
\* bucket of a domain the domain is no longer a key of the cache.
C17_NoEmptyDomainEntries ==
  /\ \A k \in 1..Len(cache) :
       /\ cache[k].keys # <<>>
       /\ Range(cache[k].keys) \subseteq {"NS", "NS_IP", "A"}
  /\ (pc = "idle" /\ removed.N >= 1 /\ removed.N <= Count(cache0)) =>
       LET d == PairAt(cache0, removed.N)[1]
       IN Len(cache0[Index(cache0, d)].keys) = 1 => \A k \in 1..Len(cache) : cache[k].domain # d

\* the only bucket of the second of two domains is removed
C17_Witness ==
  /\ pc = "idle"
  /\ removed.N = Count(cache0)
  /\ Len(cache0) = 2
  /\ cache0[2].keys = <<"A">>
  /\ Len(cache) = 1

\* some CNAME target of the running call is a name the call had already asked
\* the address of (the name it was called with, an earlier target, or the
\* owner of the CNAME itself)
Repeats ==
  \E k \in AAsked(Len(trace)) :
    /\ trace[k].reply.ok
    /\ HasCname(trace[k].reply)
    /\ CnameTarget(trace[k].reply) \in {asked} \cup {trace[j].name : j \in AAsked(k)}

\* C18: when every exchange returns, a call that has started and whose CNAME
\* targets repeat no name of the call returns (an address list or failure).
\* The alias chains without a repeat are shorter than MaxHops, so the bound
\* stops no call this is about.
C18_Termination ==
  /\ [](hops = MaxHops => Repeats)
  /\ (pc \in {"top", "walk", "askA"}) ~> (pc = "done" \/ Repeats)

\* a call that followed one alias, to a new name, and returned addresses
C18_Witness ==
  /\ pc = "done"
  /\ hops = 1
  /\ ~Repeats
  /\ result.some
  /\ Len(trace) >= 4

\* the position of the first exchange after position k of the trace, 0 when
\* none follows
NextExchange(k) ==
  IF \E j \in (k + 1)..Len(trace) : trace[j].kind # "HOST"
  THEN CHOOSE j \in (k + 1)..Len(trace) :
         /\ trace[j].kind # "HOST"
         /\ \A m \in (k + 1)..(j - 1) : trace[m].kind = "HOST"
  ELSE 0

\* C19: when a walk takes the cache branch for a suffix whose NS bucket an
\* earlier walk of the same call wrote (before an alias restart), it selects
\* the server that earlier walk went on with after the suffix: the server
\* of the exchange that followed the NS exchange, whether it came from glue
\* or from the system lookup.
C19_CachedWalkMatches ==
  [][ \A k \in 1..Len(trace) :
        ( /\ pc = "walk"
          /\ HasBucket(cache, Current, "NS")
          /\ trace[k].kind = "NS"
          /\ trace[k].name = Current
          /\ trace[k].reply.ok
          /\ NsRecords(trace[k].reply) # {}
          /\ NextExchange(k) # 0 )
        => server' = trace[NextExchange(k)].server
    ]_vars

\* domain n has both or neither of the NS and NS_IP buckets in cache c
Paired(c, n) == HasBucket(c, n, "NS") <=> HasBucket(c, n, "NS_IP")

\* C20 as stated: in every state every domain has both or neither of the NS
\* and NS_IP buckets, and the hostnames of NS_IP are in the NS list.
C20_NsPairing ==
  \A k \in 1..Len(cache) :
    /\ Paired(cache, cache[k].domain)
    /\ "NS" \in Range(cache[k].keys) =>
         \A e \in Range(cache[k].NS_IP) : e.ns \in Range(cache[k].NS)

\* C20 amended: every hostname of the NS_IP bucket of a domain that has an NS
\* bucket is in that NS list; as long as remove_cache_N has not been called
\* every domain has both or neither of the two buckets; and resolve leaves
\* no domain with one of the two that did not have just that one before
\* the call.
C20_NsIpWithinNs ==
  /\ \A k \in 1..Len(cache) :
       "NS" \in Range(cache[k].keys) =>
         \A e \in Range(cache[k].NS_IP) : e.ns \in Range(cache[k].NS)
  /\ removes = 0 => \A k \in 1..Len(cache) : Paired(cache, cache[k].domain)
  /\ pc # "idle" =>
       \A n \in CachedNames :
         ~Paired(cache, n) => SameBucket(cache, cache0, n, "NS") /\ SameBucket(cache, cache0, n, "NS_IP")

\* a call has returned with a cache in which one domain has its NS_IP
\* bucket without the NS bucket and another has both, with glue
C20_Witness ==
  /\ pc = "done"
  /\ \E k \in 1..Len(cache) : ~Paired(cache, cache[k].domain)
  /\ \E k \in 1..Len(cache) :
       /\ "NS" \in Range(cache[k].keys)
       /\ Len(cache[k].NS_IP) = 2
       /\ ~HasBucket(cache0, cache[k].domain, "NS")

====
